---- MODULE Spec2Model ----
(***************************************************************************)
(* A model of the APHRC publication pipeline: the Loader                   *)
(* (insert_to_postgres of extract.py and fetch_aphrc.py), the              *)
(* Mirror/Export job (export_to_remote.py), the Work Collector selection   *)
(* policy (extract.py main), the Institution Resolver                      *)
(* (find_aphrc_institution) and the API pagination loop (fallback_to_api). *)
(* Each component has its own specification over the shared variables.     *)
(***************************************************************************)
EXTENDS Integers, Sequences, FiniteSets, Bags, TLC

VARIABLES
    \* ---- local database and Loader ----
    table,      \* committed rows of the local aphrc_works table
    data,       \* the list of rows handed to insert_to_postgres
    ltxn,       \* rows written by the Loader's open transaction
    lpc,        \* Loader position: "idle", "copy", "commit", "rollback", "rows", "done", "raised"
    idx,        \* index of the fallback loop (df.iterrows)
    before,     \* history: the table when insert_to_postgres was entered
    rerun,      \* history: this call repeats the previous call's list
    bulkFailed, \* history: this call's COPY failed
    \* ---- Mirror/Export ----
    remoteExists, \* aphrc_works exists in the remote database
    remote,       \* committed rows of the remote table
    remote0,      \* history: the remote rows before the run
    table0,       \* history: the local table before the run
    rows,         \* the rows fetched by SELECT * (a sequence)
    rview,        \* the remote table as the open remote transaction sees it
    epc,          \* Export position
    bi,           \* start offset of the current batch (the loop variable i)
    bj,           \* number of rows of the current batch already executed
    \* ---- extract.py main: Work Collector selection ----
    mpc,        \* main position
    api_works,  \* result of fallback_to_api
    works,      \* the works handed to extract_work_data
    collected,  \* history: what the chosen strategy returned, before the synthetic check
    calls,      \* history: the strategies invoked, in order
    \* ---- Institution Resolver ----
    rpc,        \* resolver position: "candidates", "search", "done", "raised"
    cand,       \* index into known_ids
    probes,     \* history: the probes issued with their outcomes
    result,     \* the returned (id, name) pair
    \* ---- fallback_to_api ----
    apc,        \* pagination position
    page,       \* the page variable
    all_works,  \* accumulated results, one chunk per page
    requests,   \* history: the pages requested, each with the response seen
    \* ---- process_works_file: one snapshot shard ----
    fpc,          \* position: "get", "lines", "done"
    file_status,  \* outcome of the download: "200", "404", "exception"
    lines,        \* the lines of the decompressed shard
    line_num,     \* lines consumed so far
    aphrc_works,  \* the matches collected so far
    returned,     \* the list process_works_file returned
    \* ---- reconstruct_abstract ----
    bpc,                      \* position: "call", "done"
    abstract_inverted_index,  \* the argument: the items of the dict, in iteration order
    words,                    \* the list of slots built by the loops
    abstract_text,            \* the returned string
    \* ---- Record Normalizer and the tail of main ----
    npc,        \* position: "extract", "load", "aborted"
    nscript,    \* the script that runs: "extract" (extract.py) or "fetch" (fetch_aphrc.py)
    raw_works,  \* the collected works handed to the Normalizer
    norm_rows,  \* the rows built so far (the local list data)
    nidx,       \* the work the loop is at
    \* ---- two concurrent runs of insert_to_postgres ----
    wdata,      \* per writer: the list of rows handed to insert_to_postgres
    wtxn,       \* per writer: the rows written by its open transaction
    wpc,        \* per writer: "copy", "commit", "rollback", "rows", "rowcommit", "done", "raised"
    wk,         \* per writer: the row COPY or the fallback loop is at
    wfailed,    \* history, per writer: its COPY failed
    \* ---- process_works_sample ----
    spc,        \* "start", "submit", "gather", "done"
    sample_manifest, \* [present, entries]: entries is the number of entries; entry i has url i
    shard_works,\* url -> the list process_works_file returns for it
    sample_urls,\* the urls to process
    futures,    \* per submitted url: "queued", "running", "done"
    merged,     \* the futures whose result was added to all_aphrc_works
    all_aphrc_works, \* the combined result list
    \* ---- fetch_aphrc.py fetch_all_works ----
    qpc,          \* position: "probe", "page", "done"
    method_loop,  \* which of the two loops over search_methods runs: 1 or 2
    method_index, \* the search method the loop is at: 1..3
    fetch_page,   \* the page variable
    fetch_count,  \* total_count of the method in use
    fetched,      \* all_works, one chunk [method, page, n] per page appended
    counts        \* the server: per search method, the number of works it matches

loaderVars   == <<data, ltxn, lpc, idx, before, rerun, bulkFailed>>
exportVars   == <<remoteExists, remote, remote0, table0, rows, rview, epc, bi, bj>>
mainVars     == <<mpc, api_works, works, collected, calls>>
resolverVars == <<rpc, cand, probes, result>>
apiVars      == <<apc, page, all_works, requests>>
shardVars    == <<fpc, file_status, lines, line_num, aphrc_works, returned>>
abstractVars == <<bpc, abstract_inverted_index, words, abstract_text>>
normVars     == <<npc, nscript, raw_works, norm_rows, nidx>>
writersVars  == <<wdata, wtxn, wpc, wk, wfailed>>
sampleVars   == <<spc, sample_manifest, shard_works, sample_urls, futures, merged, all_aphrc_works>>
fetchVars    == <<qpc, method_loop, method_index, fetch_page, fetch_count, fetched, counts>>
extraVars    == <<shardVars, abstractVars, normVars, writersVars, sampleVars, fetchVars>>
vars == <<table, loaderVars, exportVars, mainVars, resolverVars, apiVars, extraVars>>

\* What the steps of one component leave alone
LoaderFrame   == UNCHANGED <<exportVars, mainVars, resolverVars, apiVars, extraVars>>
ExportFrame   == UNCHANGED <<loaderVars, mainVars, resolverVars, apiVars, extraVars>>
MainFrame     == UNCHANGED <<table, loaderVars, exportVars, resolverVars, apiVars, extraVars>>
ResolverFrame == UNCHANGED <<table, loaderVars, exportVars, mainVars, apiVars, extraVars>>
ApiFrame      == UNCHANGED <<table, loaderVars, exportVars, mainVars, resolverVars, extraVars>>
firstVars     == <<loaderVars, exportVars, mainVars, resolverVars, apiVars>>
ShardFrame    == UNCHANGED <<table, firstVars, abstractVars, normVars, writersVars, sampleVars, fetchVars>>
AbstractFrame == UNCHANGED <<table, firstVars, shardVars, normVars, writersVars, sampleVars, fetchVars>>
otherVars     == <<exportVars, mainVars, resolverVars, apiVars>>
NormFrame     == UNCHANGED <<otherVars, shardVars, abstractVars, writersVars, sampleVars, fetchVars>>
WritersFrame  == UNCHANGED <<firstVars, shardVars, abstractVars, normVars, sampleVars, fetchVars>>
FetchFrame    == UNCHANGED <<table, firstVars, shardVars, abstractVars, normVars, writersVars, sampleVars>>
SampleFrame   == UNCHANGED <<table, firstVars, shardVars, abstractVars, normVars, writersVars, fetchVars>>

(***************************************************************************)
(* Bounds of the model.                                                    *)
(***************************************************************************)
MaxKey   == 2   \* distinct source Works
MaxBatch == 2   \* longest list handed to the Loader

(***************************************************************************)
(* Identifiers are sequences of tokens: the URI form of Work k is          *)
(* <<Prefix, k>>, the bare form <<k>>.                                     *)
(***************************************************************************)
Prefix == "https://openalex.org/"

\* str.replace("https://openalex.org/", ""): every occurrence of the prefix is removed
StripPrefix(id) == SelectSeq(id, LAMBDA t : t # Prefix)

Keys == 1..MaxKey

\* The token that stands for the number or key n inside an identifier
Tok(n) == ToString(n)

\* A raw Work as the API or a snapshot shard delivers it: its identifier in
\* URI form, and whether the database accepts its column values (a value
\* such as a malformed publication_date is rejected by COPY and by INSERT).
RawWorks == [id : {<<Prefix, Tok(k)>> : k \in Keys}, ok : BOOLEAN]

RECURSIVE SeqsUpTo(_, _)
SeqsUpTo(S, n) ==
    IF n = 0 THEN {<<>>}
    ELSE LET shorter == SeqsUpTo(S, n - 1)
         IN  shorter \cup {Append(s, x) : s \in {t \in shorter : Len(t) = n - 1}, x \in S}

(***************************************************************************)
(* Record Normalizer, as far as the Loader depends on it: the row's id,    *)
(* the source identifier it was made from (history) and whether its        *)
(* values are loadable.                                                    *)
(***************************************************************************)
\* extract.py: the id column is the raw id with the URI prefix removed
ExtractRow(work) == [id |-> StripPrefix(work.id), src |-> work.id, ok |-> work.ok]

\* fetch_aphrc.py: the id column is the raw id as delivered
FetchRow(work) == [id |-> work.id, src |-> work.id, ok |-> work.ok]

extract_work_data(ws) == [i \in 1..Len(ws) |-> ExtractRow(ws[i])]

process_works(ws) == [i \in 1..Len(ws) |-> FetchRow(ws[i])]

Normalize(script, ws) ==
    IF script = "extract" THEN extract_work_data(ws) ELSE process_works(ws)

(***************************************************************************)
(* The aphrc_works table: a bag of stored rows [id, src]. That no two rows *)
(* share an id is the work of the PRIMARY KEY, checked by COPY and INSERT. *)
(***************************************************************************)
Stored(row) == [id |-> row.id, src |-> row.src]

Ids(T) == {r.id : r \in BagToSet(T)}

OneRow(row) == SetToBag({Stored(row)})

\* What a transaction sees: the committed rows and its own writes
Visible(T, txn) == T (+) txn

\* INSERT ... ON CONFLICT (id) DO UPDATE: the stored row is replaced
Upsert(T, row) ==
    [r \in {x \in BagToSet(T) : x.id # row.id} |-> T[r]] (+) OneRow(row)

\* INSERT ... ON CONFLICT (id) DO NOTHING of an accepted row
InsertOrSkip(T, row) ==
    IF row.id \in Ids(T) THEN T ELSE T (+) OneRow(row)

\* COPY into a table that has no primary key
CopyAcceptsNoKey(T, row) == row.ok

\* COPY accepts a row unless its values are malformed or its id is taken
CopyAccepts(T, row) == row.ok /\ row.id \notin Ids(T)

\* The rows COPY has written when it stops: all of them, or those before
\* the first row it rejects.
RECURSIVE CopyWritten(_, _, _)
CopyWritten(T, d, k) ==
    IF k > Len(d) THEN EmptyBag
    ELSE IF CopyAccepts(T, d[k])
         THEN OneRow(d[k]) (+) CopyWritten(T (+) OneRow(d[k]), d, k + 1)
         ELSE EmptyBag

CopySucceeds(T, d) == BagCardinality(CopyWritten(T, d, 1)) = Len(d)

\* Where an error of the bulk COPY goes: the except clause catches it
OnBulkError == "rollback"

\* A row's error with no except clause around the INSERT
OnRowErrorUncaught(i, n) == "raised"

\* Where an error of one row's INSERT goes: the inner except clause catches
\* it and the loop goes on
OnRowError(i, n) == IF i = n THEN "done" ELSE "rows"

\* conn.rollback(): the open transaction's writes are discarded
RolledBack(txn) == EmptyBag

(***************************************************************************)
(* Loader: insert_to_postgres.                                             *)
(***************************************************************************)
\* One ingest run: a script normalizes the collected works and calls the Loader.
Ingest ==
    /\ LoaderFrame
    /\ lpc = "idle"
    /\ \E script \in {"extract", "fetch"}, ws \in SeqsUpTo(RawWorks, MaxBatch) :
          /\ data' = Normalize(script, ws)
          /\ lpc' = IF ws = <<>> THEN "done" ELSE "copy"   \* if not data: return
    /\ before' = table
    /\ rerun' = FALSE
    /\ bulkFailed' = FALSE
    /\ idx' = 0
    /\ UNCHANGED <<table, ltxn>>

\* insert_to_postgres called again with the list of the previous call
Reload ==
    /\ LoaderFrame
    /\ lpc = "done"
    /\ data # <<>>
    /\ before' = table
    /\ rerun' = TRUE
    /\ bulkFailed' = FALSE
    /\ idx' = 0
    /\ lpc' = "copy"
    /\ UNCHANGED <<table, data, ltxn>>

\* The script ends: the list and the call's locals are gone
Return ==
    /\ LoaderFrame
    /\ lpc = "done"
    /\ lpc' = "idle"
    /\ data' = <<>>
    /\ before' = EmptyBag
    /\ rerun' = FALSE
    /\ bulkFailed' = FALSE
    /\ idx' = 0
    /\ UNCHANGED <<table, ltxn>>

\* cur.copy_expert(...): rows are written to the open transaction until one
\* is rejected
BulkCopy ==
    /\ LoaderFrame
    /\ lpc = "copy"
    /\ ltxn' = CopyWritten(table, data, 1)
    /\ lpc' = IF CopySucceeds(table, data) THEN "commit" ELSE OnBulkError
    /\ UNCHANGED <<table, data, idx, before, rerun, bulkFailed>>

\* conn.commit() after a successful COPY
BulkCommit ==
    /\ LoaderFrame
    /\ lpc = "commit"
    /\ table' = table (+) ltxn
    /\ ltxn' = EmptyBag
    /\ lpc' = "done"
    /\ UNCHANGED <<data, idx, before, rerun, bulkFailed>>

\* except: conn.rollback(), then the row-by-row loop starts
BulkRollback ==
    /\ LoaderFrame
    /\ lpc = "rollback"
    /\ ltxn' = RolledBack(ltxn)
    /\ bulkFailed' = TRUE
    /\ idx' = 1
    /\ lpc' = "rows"
    /\ UNCHANGED <<table, data, before, rerun>>

\* One iteration of the fallback loop: INSERT ... ON CONFLICT DO NOTHING and
\* conn.commit(), or on an error conn.rollback() and on to the next row
InsertRow ==
    /\ LoaderFrame
    /\ lpc = "rows"
    /\ LET row == data[idx]
       IN  IF row.ok
           THEN /\ table' = InsertOrSkip(Visible(table, ltxn), row)
                /\ ltxn' = EmptyBag
                /\ lpc' = IF idx = Len(data) THEN "done" ELSE "rows"
           ELSE /\ table' = table
                /\ ltxn' = RolledBack(ltxn)
                /\ lpc' = OnRowError(idx, Len(data))
    /\ idx' = idx + 1
    /\ UNCHANGED <<data, before, rerun, bulkFailed>>

(***************************************************************************)
(* Mirror/Export: export_data_to_remote.                                   *)
(***************************************************************************)
BatchSize == 100        \* batch_size

MaxFullBatches == 1     \* full batches of the largest source

\* A row of the local table as extract.py loaded it
LocalRow(n) == [id |-> <<Tok(n)>>, src |-> <<Prefix, Tok(n)>>]

\* A row with the same id and other column values
OtherRow(n) == [id |-> <<Tok(n)>>, src |-> <<"other", Tok(n)>>]

LocalTable(n) == SetToBag({LocalRow(i) : i \in 1..n})

\* Source sizes: empty, one row, exactly one batch, and full batches
\* followed by a batch of two rows
SourceSizes == {0, 1, BatchSize, MaxFullBatches * BatchSize + 2}

\* Rows the remote table may hold before the run
RemoteSeeds ==
    {SetToBag(S) :
        S \in SUBSET {OtherRow(1), LocalRow(BatchSize + 1), OtherRow(0)}}

\* SELECT * FROM aphrc_works; fetchall()
FetchAll(T) ==
    [i \in 1..BagCardinality(T) |-> CHOOSE r \in BagToSet(T) : r.id = <<Tok(i)>>]

Min(a, b) == IF a < b THEN a ELSE b

\* rows[0:batch_size], whatever i is
BatchFromStart(rs, i) == SubSeq(rs, 1, Min(BatchSize, Len(rs)))

\* rows[i:i+batch_size]
Batch(rs, i) == SubSeq(rs, i + 1, Min(i + BatchSize, Len(rs)))

\* if not rows: return -- taken before the remote database is touched
ReturnsEarly(rs) == rs = <<>>

\* The remote table had the except clause committed what was executed
AbandonedView(view, committed) == view

\* The remote table after the run ended in the except clause: the open
\* transaction was never committed and goes with the dropped connection
Abandoned(view, committed) == committed

\* local_cur.execute("SELECT * ..."); rows = local_cur.fetchall()
ReadLocal ==
    /\ ExportFrame
    /\ epc = "start"
    /\ rows' = FetchAll(table)
    /\ epc' = IF ReturnsEarly(rows') THEN "done" ELSE "create"
    /\ UNCHANGED <<table, remoteExists, remote, remote0, table0, rview, bi, bj>>

\* psycopg2.connect(**remote_db); CREATE TABLE IF NOT EXISTS; commit
CreateTable ==
    /\ ExportFrame
    /\ epc = "create"
    /\ remoteExists' = TRUE
    /\ rview' = remote
    /\ bi' = 0
    /\ bj' = 0
    /\ epc' = "batch"
    /\ UNCHANGED <<table, remote, remote0, table0, rows>>

\* executemany: one row of the batch, INSERT ... ON CONFLICT (id) DO NOTHING
ExecuteRow ==
    /\ ExportFrame
    /\ epc = "batch"
    /\ rview' = InsertOrSkip(rview, Batch(rows, bi)[bj + 1])
    /\ bj' = bj + 1
    /\ epc' = IF bj + 1 = Len(Batch(rows, bi)) THEN "commit" ELSE "batch"
    /\ UNCHANGED <<table, remoteExists, remote, remote0, table0, rows, bi>>

\* remote_conn.commit() and the next iteration of range(0, len(rows), batch_size)
CommitBatch ==
    /\ ExportFrame
    /\ epc = "commit"
    /\ remote' = rview
    /\ bi' = bi + BatchSize
    /\ bj' = 0
    /\ epc' = IF bi + BatchSize < Len(rows) THEN "batch" ELSE "done"
    /\ UNCHANGED <<table, remoteExists, remote0, table0, rows, rview>>

\* Any statement may raise (connection lost, a rejected row): the except
\* clause prints the error and the function returns
ExportError ==
    /\ ExportFrame
    /\ epc \in {"start", "create", "batch", "commit"}
    /\ epc' = "failed"
    /\ remote' = Abandoned(rview, remote)
    /\ rview' = remote'
    /\ UNCHANGED <<table, remoteExists, remote0, table0, rows, bi, bj>>

\* The script is run again against the same databases
ExportAgain ==
    /\ ExportFrame
    /\ epc \in {"done", "failed"}
    /\ epc' = "start"
    /\ remote0' = remote
    /\ rview' = remote
    /\ rows' = <<>>
    /\ bi' = 0
    /\ bj' = 0
    /\ UNCHANGED <<table, remoteExists, remote, table0>>

(***************************************************************************)
(* extract.py main: the Work Collector's selection policy.                 *)
(***************************************************************************)
ApiThreshold == 10      \* if len(api_works) < 10
SnapshotThreshold == 5  \* if len(works) < 5
SampleCount == 10       \* for i in range(10)

MaxApi == 11            \* most works the API strategy returns
MaxSnapshot == 6        \* most works the snapshot strategy returns

\* The works a strategy returned: n distinct works tagged with the strategy
WorksOf(tag, n) == [i \in 1..n |-> [id |-> <<Prefix, tag, Tok(i)>>]]

\* generate_sample_data(): ten synthetic works, i = 0..9
SampleWork(i) ==
    [ id               |-> <<Prefix, "W27418098", Tok(i)>>,
      title            |-> <<"Sample APHRC publication", Tok(i + 1)>>,
      authors          |-> <<"John Doe", "Jane Smith">>,
      publication_year |-> 2022 + (i % 3),
      doi              |-> <<"10.1234/aphrc.", Tok(5678 + i)>>,
      is_oa            |-> (i % 2 = 0),
      cited_by_count   |-> i * 3,
      type             |-> "journal-article" ]

generate_sample_data == [k \in 1..SampleCount |-> SampleWork(k - 1)]

\* The first test made with the threshold of the second
ApiTooFewAtFive(ws) == Len(ws) < SnapshotThreshold

\* if len(api_works) < 10: the snapshot strategy is tried
ApiTooFew(ws) == Len(ws) < ApiThreshold

\* if len(works) < 5: the synthetic records are used
StillTooFew(ws) == Len(ws) < SnapshotThreshold

\* api_works = fallback_to_api(aphrc_id)
CallApi ==
    /\ MainFrame
    /\ mpc = "start"
    /\ \E n \in 0..MaxApi : api_works' = WorksOf("api", n)
    /\ calls' = Append(calls, "api")
    /\ mpc' = "select"
    /\ UNCHANGED <<works, collected>>

\* else: works = api_works
UseApiWorks ==
    /\ MainFrame
    /\ mpc = "select"
    /\ ~ApiTooFew(api_works)
    /\ works' = api_works
    /\ collected' = works'
    /\ mpc' = "check"
    /\ UNCHANGED <<api_works, calls>>

\* manifest = download_works_manifest(); works = process_works_sample(...).
\* The manifest is None (download failed), well formed, or of a shape that
\* makes process_works_sample raise (an entry without "url"), which ends
\* main in its except clause.
UseSnapshot ==
    /\ MainFrame
    /\ mpc = "select"
    /\ ApiTooFew(api_works)
    /\ calls' = calls \o <<"manifest", "sample">>
    /\ \E manifest \in {"none", "ok", "malformed"} :
          CASE manifest = "none" ->
                  /\ works' = <<>>
                  /\ mpc' = "check"
            [] manifest = "ok" ->
                  /\ \E n \in 0..MaxSnapshot : works' = WorksOf("snapshot", n)
                  /\ mpc' = "check"
            [] OTHER ->
                  /\ works' = works
                  /\ mpc' = "aborted"
    /\ collected' = works'
    /\ UNCHANGED api_works

\* if len(works) < 5: works = generate_sample_data()
CheckEnough ==
    /\ MainFrame
    /\ mpc = "check"
    /\ IF StillTooFew(works)
       THEN /\ works' = generate_sample_data
            /\ calls' = Append(calls, "synthetic")
       ELSE UNCHANGED <<works, calls>>
    /\ mpc' = "normalize"
    /\ UNCHANGED <<api_works, collected>>

\* if works: data = extract_work_data(works); insert_to_postgres(data)
NormalizeAndLoad ==
    /\ MainFrame
    /\ mpc = "normalize"
    /\ calls' = IF works # <<>> THEN calls \o <<"extract_work_data", "insert_to_postgres">>
                ELSE calls
    /\ mpc' = "done"
    /\ UNCHANGED <<api_works, works, collected>>

(***************************************************************************)
(* Institution Resolver: find_aphrc_institution.                           *)
(***************************************************************************)
MaxResults == 2         \* most results of the name search

FullName == "African Population and Health Research Center"

Null == <<"null">>      \* a JSON null

known_ids == << <<"I4210152772">>, <<"I875800504">> >>

FallbackPair == << <<"I4210152772">>, <<FullName>> >>

\* How the probe log names the name search
SearchProbe == <<"search">>

\* Display names, as token sequences: absent (the default ""), the full name,
\* the full name inside a longer one, another institution's, or null
DisplayNames == {<<>>, <<FullName>>, <<FullName, "Kenya">>, <<"Other">>, Null}

\* "African Population and Health Research Center" in name;
\* the test raises TypeError on a null name
Contains(name) == \E i \in 1..Len(name) : name[i] = FullName

\* GET /institutions/{id}: a status and, on 200, the body's display_name
CandidateResponses ==
    [status : {"200"}, name : DisplayNames] \cup [status : {"404", "exception"}, name : {<<>>}]

\* One element of the search response's "results"
SearchResults ==
    [name : DisplayNames, id : {<<Prefix, "I4210152772">>, <<Prefix, "I7">>, Null}]

SearchResponses ==
    [status : {"200"}, results : SeqsUpTo(SearchResults, MaxResults)]
        \cup [status : {"500", "exception"}, results : {<<>>}]

\* The try block of one candidate: "raise", "match" or "next"
CandidateOutcome(resp) ==
    IF resp.status = "exception" THEN "raise"
    ELSE IF resp.status # "200" THEN "next"
    ELSE IF resp.name = Null THEN "raise"
    ELSE IF Contains(resp.name) THEN "match"
    ELSE "next"

\* for institution in results: the first result that matches or raises
\* decides; .replace on a null id raises AttributeError
RECURSIVE ScanResults(_, _)
ScanResults(rs, i) ==
    IF i > Len(rs) THEN [kind |-> "none"]
    ELSE IF rs[i].name = Null THEN [kind |-> "raise"]
    ELSE IF Contains(rs[i].name)
         THEN IF rs[i].id = Null THEN [kind |-> "raise"]
              ELSE [kind |-> "found", pair |-> <<StripPrefix(rs[i].id), rs[i].name>>]
    ELSE ScanResults(rs, i + 1)

\* The try block of the name search
SearchOutcome(resp) ==
    IF resp.status = "exception" THEN [kind |-> "raise"]
    ELSE IF resp.status # "200" THEN [kind |-> "none"]
    ELSE ScanResults(resp.results, 1)

\* A probe's error with no except clause around the probe
OnProbeErrorUncaught(next) == "raised"

\* except Exception as e: print(...) -- the error is swallowed
OnProbeError(next) == next

\* After candidate number c: the next candidate, or the name search
AfterCandidate(c) == IF c < Len(known_ids) THEN "candidates" ELSE "search"

\* One iteration of: for institution_id in known_ids
ProbeCandidate ==
    /\ ResolverFrame
    /\ rpc = "candidates"
    /\ \E resp \in CandidateResponses :
          /\ probes' = Append(probes, [probe |-> known_ids[cand], resp |-> resp])
          /\ CASE CandidateOutcome(resp) = "match" ->
                     /\ result' = <<known_ids[cand], resp.name>>
                     /\ rpc' = "done"
               [] CandidateOutcome(resp) = "raise" ->
                     /\ result' = result
                     /\ rpc' = OnProbeError(AfterCandidate(cand))
               [] OTHER ->
                     /\ result' = result
                     /\ rpc' = AfterCandidate(cand)
    /\ cand' = cand + 1

\* Method 2, the name search, and the fallback return after it
ProbeSearch ==
    /\ ResolverFrame
    /\ rpc = "search"
    /\ \E resp \in SearchResponses :
          /\ probes' = Append(probes, [probe |-> SearchProbe, resp |-> resp])
          /\ CASE SearchOutcome(resp).kind = "found" ->
                     /\ result' = SearchOutcome(resp).pair
                     /\ rpc' = "done"
               [] SearchOutcome(resp).kind = "raise" ->
                     /\ result' = FallbackPair
                     /\ rpc' = OnProbeError("done")
               [] OTHER ->
                     /\ result' = FallbackPair
                     /\ rpc' = "done"
    /\ UNCHANGED cand

(***************************************************************************)
(* API strategy: fallback_to_api.                                          *)
(***************************************************************************)
PerPage == 200          \* per_page

MaxPages == 3           \* pages requested before the model stops following the loop

\* len(results) of one page
ResultSizes == {0, 1, PerPage - 1, PerPage}

\* meta.count
TotalCounts == {0, PerPage, PerPage + 1, 2 * PerPage + 1}

\* A response to the request of page p: its status, the number of results,
\* meta.count, and meta.page: the requested page echoed, absent (the
\* default 0), or page 1 whatever was asked
ApiResponses(p) ==
    [status : {"200"}, n : ResultSizes, count : TotalCounts, page : {p, 0, 1}]
        \cup [status : {"500", "exception"}, n : {0}, count : {0}, page : {0}]

\* if len(results) < per_page or current_page * per_page >= total_count
NoMorePages(resp, p) == resp.n < PerPage \/ resp.page * PerPage >= resp.count

\* One iteration of: while has_more
RequestPage ==
    /\ ApiFrame
    /\ apc = "loop"
    /\ page <= MaxPages
    /\ \E resp \in ApiResponses(page) :
          /\ requests' = Append(requests, [page |-> page, resp |-> resp])
          /\ IF resp.status # "200"
             THEN \* break, from the status test or from the except clause
                  /\ apc' = "done"
                  /\ UNCHANGED <<page, all_works>>
             ELSE /\ all_works' = Append(all_works, [page |-> page, n |-> resp.n])
                  /\ IF NoMorePages(resp, page)
                     THEN apc' = "done" /\ page' = page
                     ELSE apc' = "loop" /\ page' = page + 1

(***************************************************************************)
(* JSON values as json.loads delivers them. A value is the pair            *)
(* (type, payload) with type "str", "int", "bool", "null", "obj" or "arr". *)
(* A string is a sequence of pieces (the empty string is <<>>,             *)
(* concatenation is \o), an object the sequence of its (key, value) items  *)
(* in the dict's iteration order, an array a sequence.                     *)
(***************************************************************************)
JStr(s)  == <<"str", s>>
JInt(n)  == <<"int", n>>
JBool(b) == <<"bool", b>>
JNull    == <<"null", <<>> >>
JObj(d)  == <<"obj", d>>
JArr(s)  == <<"arr", s>>

\* The keys of the dict d
KeysOf(d) == {d[i][1] : i \in 1..Len(d)}

\* key in d
Has(d, key) == key \in KeysOf(d)

\* d[key], for a key of d
At(d, key) == d[CHOOSE i \in 1..Len(d) : d[i][1] = key][2]

\* dict.get(key, default) on the dict d
Get(d, key, default) == IF Has(d, key) THEN At(d, key) ELSE default

(***************************************************************************)
(* process_works_file (extract.py): one shard of the snapshot.             *)
(***************************************************************************)
MaxLines == 2   \* most lines of a shard

\* The resolved institution id the shard is filtered for
aphrc_id == known_ids[1]

\* institution.get("id", "").replace("https://openalex.org/", "") == aphrc_id
\* gives "match" or "nomatch", or "raise" when the institution has no get
\* or its id no replace
InstitutionTest(inst) ==
    IF inst[1] # "obj" THEN "raise"
    ELSE LET id == Get(inst[2], "id", JStr(<<>>))
         IN  IF id[1] # "str" THEN "raise"
             ELSE IF StripPrefix(id[2]) = aphrc_id THEN "match" ELSE "nomatch"

\* for institution in ...: the inner loop from institution j on, left by
\* break at the first match
RECURSIVE ScanInstitutions(_, _)
ScanInstitutions(insts, j) ==
    IF j > Len(insts) THEN "nomatch"
    ELSE LET r == InstitutionTest(insts[j])
         IN  IF r = "nomatch" THEN ScanInstitutions(insts, j + 1) ELSE r

\* authorship.get("institutions", []) and the loop over it; a value that is
\* no list (null here) cannot be iterated
AuthorshipTest(a) ==
    IF a[1] # "obj" THEN "raise"
    ELSE LET insts == Get(a[2], "institutions", JArr(<<>>))
         IN  IF insts[1] # "arr" THEN "raise" ELSE ScanInstitutions(insts[2], 1)

\* for authorship in ...: the outer loop from authorship i on
RECURSIVE ScanAuthorships(_, _)
ScanAuthorships(auths, i) ==
    IF i > Len(auths) THEN "nomatch"
    ELSE LET r == AuthorshipTest(auths[i])
         IN  IF r = "nomatch" THEN ScanAuthorships(auths, i + 1) ELSE r

\* The test of one parsed record: work.get("authorships", []) and the two loops
TestRecord(work) ==
    IF work[1] # "obj" THEN "raise"
    ELSE LET auths == Get(work[2], "authorships", JArr(<<>>))
         IN  IF auths[1] # "arr" THEN "raise" ELSE ScanAuthorships(auths[2], 1)

\* ---- the shards the model reads ----
\* What a line parses to: objects with and without authorships, the
\* authorships with and without institutions, and JSON values that are no
\* object
ShardRecords ==
    LET InstitutionOf(id)   == JObj(<< <<"id", id>> >>)
        TargetUri           == InstitutionOf(JStr(<<Prefix>> \o aphrc_id))
        TargetBare          == InstitutionOf(JStr(aphrc_id))
        OtherInst           == InstitutionOf(JStr(<<Prefix, "I1">>))
        NullIdInst          == InstitutionOf(JNull)
        AuthorshipOf(insts) == JObj(<< <<"institutions", JArr(insts)>> >>)
        NullInstitutions    == JObj(<< <<"institutions", JNull>> >>)
        NoInstitutions      ==
            JObj(<< <<"author", JObj(<< <<"display_name", JStr(<<"A">>)>> >>)>> >>)
        AuthorshipLists ==
            { <<>>,
              <<AuthorshipOf(<<TargetUri>>)>>,
              <<AuthorshipOf(<<TargetBare>>)>>,
              <<AuthorshipOf(<<OtherInst>>)>>,
              <<AuthorshipOf(<<OtherInst, TargetUri>>)>>,
              <<NoInstitutions, AuthorshipOf(<<TargetUri>>)>>,
              <<AuthorshipOf(<<TargetUri>>), NullInstitutions>>,
              <<NullInstitutions, AuthorshipOf(<<TargetUri>>)>>,
              <<AuthorshipOf(<<NullIdInst, TargetUri>>)>>,
              <<JNull>> }
    IN  {JObj(<< <<"authorships", JArr(as)>> >>) : as \in AuthorshipLists}
        \cup {JObj(<< <<"title", JStr(<<"T">>)>> >>), JObj(<< <<"authorships", JNull>> >>),
              JArr(<<>>), JInt(7)}

\* A line of the decompressed file: text that decodes and parses to a
\* value, text that json.loads rejects, or bytes that are not UTF-8
ShardLines ==
    [text : {"ok"}, value : ShardRecords]
    \cup [text : {"badjson", "undecodable"}, value : {JNull}]

FileStatuses == {"200", "404", "exception"}

\* requests.get(file_url): a status other than 200 returns [], and so does
\* the outer except after a transport error
DownloadShard ==
    /\ ShardFrame
    /\ fpc = "get"
    /\ IF file_status = "200"
       THEN fpc' = "lines" /\ returned' = returned
       ELSE fpc' = "done" /\ returned' = <<>>
    /\ UNCHANGED <<file_status, lines, line_num, aphrc_works>>

\* The outer except of process_works_file: whatever was collected is dropped
OnFileError == <<>>

\* One iteration of "for line_num, line in enumerate(f)". Reading the line
\* decodes it, outside the inner try: bytes that are not UTF-8 raise into
\* the outer except. json.loads and the test run inside the inner try.
NextLine ==
    /\ ShardFrame
    /\ fpc = "lines" /\ line_num < Len(lines)
    /\ LET line == lines[line_num + 1]
       IN  IF line.text = "undecodable"
           THEN /\ fpc' = "done"
                /\ returned' = OnFileError
                /\ UNCHANGED <<line_num, aphrc_works>>
           ELSE /\ line_num' = line_num + 1
                /\ aphrc_works' =
                       IF line.text = "ok" /\ TestRecord(line.value) = "match"
                       THEN Append(aphrc_works, line.value)
                       ELSE aphrc_works
                /\ UNCHANGED <<fpc, returned>>
    /\ UNCHANGED <<file_status, lines>>

\* return aphrc_works, after the last line
ReturnShard ==
    /\ ShardFrame
    /\ fpc = "lines" /\ line_num = Len(lines)
    /\ fpc' = "done" /\ returned' = aphrc_works
    /\ UNCHANGED <<file_status, lines, line_num, aphrc_works>>

(***************************************************************************)
(* reconstruct_abstract (extract.py, and the same text in fetch_aphrc.py). *)
(* The inverted index is the sequence of its items (word, positions) in    *)
(* the dict's iteration order; positions is a JSON value.                  *)
(***************************************************************************)
MaxPos       == 2   \* largest position of an index
MaxPositions == 2   \* most positions recorded for one word

\* sep.join(ss) for a list ss of strings
RECURSIVE Join(_, _)
Join(sep, ss) ==
    IF ss = <<>> THEN <<>>
    ELSE IF Len(ss) = 1 THEN ss[1]
    ELSE ss[1] \o sep \o Join(sep, Tail(ss))

\* while len(words) < pos: words.append("")
PadShort(ws, pos) ==
    IF Len(ws) < pos THEN ws \o [i \in 1..(pos - Len(ws)) |-> <<>>] ELSE ws

\* while len(words) <= pos: words.append("")
Pad(ws, pos) ==
    IF Len(ws) <= pos THEN ws \o [i \in 1..(pos + 1 - Len(ws)) |-> <<>>] ELSE ws

\* words[pos] = word, after the padding; a position beyond the list is an IndexError
Place(ws, word, pos) ==
    LET padded == Pad(ws, pos)
    IN  IF pos + 1 \in 1..Len(padded)
        THEN [ok |-> TRUE, words |-> [padded EXCEPT ![pos + 1] = word]]
        ELSE [ok |-> FALSE, words |-> padded]

\* for pos in positions, from the k-th position on; a position that is no
\* integer cannot be compared with len(words)
RECURSIVE PlaceWord(_, _, _, _)
PlaceWord(ws, word, ps, k) ==
    IF k > Len(ps) THEN [ok |-> TRUE, words |-> ws]
    ELSE IF ps[k][1] # "int" THEN [ok |-> FALSE, words |-> ws]
    ELSE LET r == Place(ws, word, ps[k][2])
         IN  IF r.ok THEN PlaceWord(r.words, word, ps, k + 1) ELSE r

\* for word, positions in abstract_inverted_index.items(), from item n on;
\* positions that are no list cannot be iterated
RECURSIVE PlaceItems(_, _, _)
PlaceItems(ws, items, n) ==
    IF n > Len(items) THEN [ok |-> TRUE, words |-> ws]
    ELSE IF items[n][2][1] # "arr" THEN [ok |-> FALSE, words |-> ws]
    ELSE LET r == PlaceWord(ws, <<items[n][1]>>, items[n][2][2], 1)
         IN  IF r.ok THEN PlaceItems(r.words, items, n + 1) ELSE r

\* The function: ok is FALSE when it raises
reconstruct_abstract(items) ==
    IF items = <<>> THEN [ok |-> TRUE, words |-> <<>>, text |-> <<>>]
    ELSE LET r == PlaceItems(<<>>, items, 1)
         IN  [ok |-> r.ok, words |-> r.words,
              text |-> IF r.ok THEN Join(<<" ">>, r.words) ELSE <<>>]

\* ---- the indexes the model reconstructs: a dict has each key once ----
Indexes ==
    LET IndexWords    == {"a", "b"}
        PositionLists ==
            {JArr(ps) : ps \in SeqsUpTo({JInt(n) : n \in 0..MaxPos}, MaxPositions)}
        IndexItems    == IndexWords \X PositionLists
    IN  {ix \in SeqsUpTo(IndexItems, Cardinality(IndexWords)) :
            \A i, j \in 1..Len(ix) : i # j => ix[i][1] # ix[j][1]}

Reconstruct ==
    /\ AbstractFrame
    /\ bpc = "call"
    /\ LET r == reconstruct_abstract(abstract_inverted_index)
       IN  /\ bpc' = IF r.ok THEN "done" ELSE "raised"
           /\ words' = r.words
           /\ abstract_text' = r.text
    /\ UNCHANGED abstract_inverted_index

(***************************************************************************)
(* Record Normalizer in full: the loop body of extract_work_data           *)
(* (extract.py) and of process_works (fetch_aphrc.py). A raw Work is a     *)
(* JSON object; its abstract_inverted_index, whose iteration order counts, *)
(* is the sequence of its items. A result has ok FALSE when the code       *)
(* raises.                                                                 *)
(***************************************************************************)
MaxWorks == 2   \* longest list of collected works

EmptyStr == JStr(<<>>)
EmptyObj == JObj(<<>>)

\* The second argument of each .get of the loop body
DefaultNull(key) == JNull

Default(key) ==
    CASE key \in {"id", "title", "doi", "type", "display_name", "volume", "issue"} -> EmptyStr
      [] key \in {"publication_year", "publication_date"} -> JNull
      [] key = "cited_by_count" -> JInt(0)
      [] key = "is_oa" -> JBool(FALSE)
      [] key \in {"host_venue", "open_access", "abstract_inverted_index"} -> EmptyObj
      [] key = "authorships" -> JArr(<<>>)

\* author["author"]["display_name"]: a missing key is a KeyError, a value
\* that is no dict cannot be subscripted by a key
DisplayName(entry) ==
    IF entry[1] # "obj" \/ ~Has(entry[2], "author")
    THEN [ok |-> FALSE, name |-> JNull]
    ELSE LET author == At(entry[2], "author")
         IN  IF author[1] # "obj" \/ ~Has(author[2], "display_name")
             THEN [ok |-> FALSE, name |-> JNull]
             ELSE [ok |-> TRUE, name |-> At(author[2], "display_name")]

\* ", ".join([... for author in work.get("authorships", [])]): the list
\* cannot be built from a value that is no list, and join takes strings only
Authors(work) ==
    LET auths == Get(work[2], "authorships", Default("authorships"))
    IN  IF auths[1] # "arr" THEN [ok |-> FALSE, val |-> EmptyStr]
        ELSE LET names == [i \in 1..Len(auths[2]) |-> DisplayName(auths[2][i])]
             IN  IF \A i \in 1..Len(names) : names[i].ok /\ names[i].name[1] = "str"
                 THEN [ok |-> TRUE,
                       val |-> JStr(Join(<<", ">>, [i \in 1..Len(names) |-> names[i].name[2]]))]
                 ELSE [ok |-> FALSE, val |-> EmptyStr]

\* "if abstract:" -- the truth value of a JSON value
Truthy(x) ==
    CASE x[1] = "null" -> FALSE
      [] x[1] = "bool" -> x[2]
      [] x[1] = "int"  -> x[2] # 0
      [] OTHER        -> x[2] # <<>>

\* abstract_text: the reconstruction of a non-empty index, "" when it
\* raises (bare except) -- a value without items() raises -- and "" for an
\* empty or missing index
AbstractText(work) ==
    LET abstract == Get(work[2], "abstract_inverted_index", Default("abstract_inverted_index"))
    IN  IF ~Truthy(abstract) THEN EmptyStr
        ELSE IF abstract[1] # "obj" THEN EmptyStr
        ELSE LET r == reconstruct_abstract(abstract[2])
             IN  IF r.ok THEN JStr(r.text) ELSE EmptyStr

\* The id column. extract.py: work.get("id", "").replace(prefix, ""), which
\* raises when the id is no string; fetch_aphrc.py: work.get("id", "")
IdColumn(scr, work) ==
    LET id == Get(work[2], "id", Default("id"))
    IN  IF scr = "fetch" THEN [ok |-> TRUE, val |-> id]
        ELSE IF id[1] # "str" THEN [ok |-> FALSE, val |-> id]
        ELSE [ok |-> TRUE, val |-> JStr(StripPrefix(id[2]))]

\* work.get(key, {}).get(inner, default): a value that is no dict has no get
Nested(work, key, inner) ==
    LET outer == Get(work[2], key, Default(key))
    IN  IF outer[1] # "obj" THEN [ok |-> FALSE, val |-> JNull]
        ELSE [ok |-> TRUE, val |-> Get(outer[2], inner, Default(inner))]

\* One iteration of the loop: the row of one work, or ok FALSE when any of
\* its expressions raises
NormalizeWork(scr, work) ==
    LET authors == Authors(work)
        name    == Nested(work, "host_venue", "display_name")
        volume  == Nested(work, "host_venue", "volume")
        issue   == Nested(work, "host_venue", "issue")
        id      == IdColumn(scr, work)
        is_oa   == Nested(work, "open_access", "is_oa")
    IN  [ok  |-> authors.ok /\ name.ok /\ id.ok /\ is_oa.ok,
         row |-> [id               |-> id.val,
                  title            |-> Get(work[2], "title", Default("title")),
                  authors          |-> authors.val,
                  publication_year |-> Get(work[2], "publication_year", Default("publication_year")),
                  publication_date |-> Get(work[2], "publication_date", Default("publication_date")),
                  doi              |-> Get(work[2], "doi", Default("doi")),
                  open_access      |-> is_oa.val,
                  journal_name     |-> name.val,
                  volume           |-> volume.val,
                  issue            |-> issue.val,
                  cited_by_count   |-> Get(work[2], "cited_by_count", Default("cited_by_count")),
                  type             |-> Get(work[2], "type", Default("type")),
                  abstract         |-> AbstractText(work)]]

\* ---- the works the model normalizes ----
AuthorEntry(name) == JObj(<< <<"author", JObj(<< <<"display_name", name>> >>)>> >>)

\* The Work of the spec's end-to-end scenario
ExampleWork ==
    JObj(<< <<"id", JStr(<<"https://x.org/", "W1">>)>>,
            <<"title", JStr(<<"T">>)>>,
            <<"authorships", JArr(<<AuthorEntry(JStr(<<"A">>))>>)>>,
            <<"publication_year", JInt(2022)>>,
            <<"open_access", JObj(<< <<"is_oa", JBool(TRUE)>> >>)>>,
            <<"host_venue", JObj(<< <<"display_name", JStr(<<"J">>)>>,
                                    <<"volume", JStr(<<"1">>)>>,
                                    <<"issue", JStr(<<"2">>)>> >>)>>,
            <<"cited_by_count", JInt(5)>>,
            <<"type", JStr(<<"journal-article">>)>>,
            <<"abstract_inverted_index", JObj(<< <<"hi", JArr(<<JInt(0)>>)>> >>)>> >>)

WorkKeys == KeysOf(ExampleWork[2]) \cup {"publication_date", "doi"}

EmptyWork == JObj(<<>>)

Without(work, keys) == JObj(SelectSeq(work[2], LAMBDA item : item[1] \notin keys))

WithValue(work, key, val) ==
    IF Has(work[2], key)
    THEN JObj([i \in 1..Len(work[2]) |->
                  IF work[2][i][1] = key THEN <<key, val>> ELSE work[2][i]])
    ELSE JObj(Append(work[2], <<key, val>>))

\* Work k as the OpenAlex API delivers it
OpenAlexWork(k) ==
    WithValue(WithValue(WithValue(ExampleWork,
        "id", JStr(<<Prefix, Tok(k)>>)),
        "publication_date", JStr(<<"2022-05-15">>)),
        "doi", JStr(<<"10.1234/aphrc">>))

\* An authorship entry that names no author
NoAuthorEntry == JObj(<< <<"institutions", JArr(<<>>)>> >>)

NormWorks ==
    LET AuthorshipValues ==
            { JArr(<<>>),
              JArr(<<AuthorEntry(JStr(<<"A">>)), AuthorEntry(JStr(<<"B">>))>>),
              JArr(<<AuthorEntry(JStr(<<"B">>)), AuthorEntry(JStr(<<"A">>)),
                     AuthorEntry(JStr(<<"B">>))>>),
              JArr(<<NoAuthorEntry>>),
              JArr(<<AuthorEntry(JStr(<<"A">>)), NoAuthorEntry>>),
              JArr(<<JObj(<< <<"author", JObj(<<>>)>> >>)>>),
              JArr(<<JObj(<< <<"author", JNull>> >>)>>),
              JArr(<<AuthorEntry(JNull)>>) }
        VenueValues ==
            { EmptyObj, JObj(<< <<"display_name", JStr(<<"J">>)>> >>),
              JObj(<< <<"display_name", JNull>> >>) }
        IndexValues ==
            { EmptyObj,
              JObj(<< <<"a", JArr(<<JInt(0)>>)>>, <<"b", JArr(<<JInt(2)>>)>> >>),
              JObj(<< <<"a", JNull>> >>),
              JArr(<<JInt(1)>>) }
        IdValues == { JStr(<<"W1">>), JStr(<<Prefix, "W1">>), JInt(1) }
    IN  {ExampleWork, EmptyWork}
        \cup {OpenAlexWork(k) : k \in Keys}
        \cup {Without(ExampleWork, {k}) : k \in WorkKeys}
        \cup {WithValue(ExampleWork, k, JNull) : k \in WorkKeys}
        \cup {WithValue(ExampleWork, "authorships", x) : x \in AuthorshipValues}
        \cup {WithValue(ExampleWork, "host_venue", x) : x \in VenueValues}
        \cup {WithValue(ExampleWork, "open_access", EmptyObj)}
        \cup {WithValue(ExampleWork, "abstract_inverted_index", x) : x \in IndexValues}
        \cup {WithValue(ExampleWork, "id", x) : x \in IdValues}

\* The works that longer lists are made of
ListWorks ==
    {OpenAlexWork(k) : k \in Keys}
    \cup {ExampleWork, WithValue(OpenAlexWork(1), "authorships", JArr(<<NoAuthorEntry>>))}

\* main calls the Normalizer with a list that is not empty
WorkLists ==
    {<<w>> : w \in NormWorks} \cup (SeqsUpTo(ListWorks, MaxWorks) \ {<<>>})

\* The exception leaves extract_work_data (process_works) and main (the
\* except clause of main): the run is over
OnRecordError == "aborted"

\* One iteration of "for work in works"
ExtractWork ==
    /\ NormFrame
    /\ npc = "extract" /\ nidx <= Len(raw_works)
    /\ LET r == NormalizeWork(nscript, raw_works[nidx])
       IN  IF r.ok
           THEN /\ norm_rows' = Append(norm_rows, r.row)
                /\ nidx' = nidx + 1
                /\ npc' = npc
           ELSE /\ npc' = OnRecordError
                /\ UNCHANGED <<norm_rows, nidx>>
    /\ UNCHANGED <<table, loaderVars, nscript, raw_works>>

\* Whether the table's column types take the row's values
Loadable(row) ==
    /\ row.id[1] = "str"
    /\ row.publication_year[1] \in {"int", "null"}
    /\ row.publication_date[1] \in {"str", "null"}
    /\ row.open_access[1] \in {"bool", "null"}
    /\ row.cited_by_count[1] \in {"int", "null"}
    /\ \A c \in {"title", "authors", "doi", "journal_name", "volume", "issue", "type",
                 "abstract"} : row[c][1] \in {"str", "null"}

\* The row as the Loader sees it: its id, the source identifier (history)
\* and whether the database takes it
LoaderRow(work, row) ==
    LET raw == Get(work[2], "id", EmptyStr)
    IN  [id  |-> IF row.id[1] = "str" THEN row.id[2] ELSE <<>>,
         src |-> IF raw[1] = "str" THEN raw[2] ELSE <<>>,
         ok  |-> Loadable(row)]

\* return data, and main's insert_to_postgres(data)
HandToLoader ==
    /\ NormFrame
    /\ npc = "extract" /\ nidx > Len(raw_works)
    /\ npc' = "load"
    /\ data' = [i \in 1..Len(norm_rows) |-> LoaderRow(raw_works[i], norm_rows[i])]
    /\ lpc' = IF norm_rows = <<>> THEN "done" ELSE "copy"
    /\ before' = table
    /\ rerun' = FALSE
    /\ bulkFailed' = FALSE
    /\ idx' = 0
    /\ UNCHANGED <<table, ltxn, nscript, raw_works, norm_rows, nidx>>

(***************************************************************************)
(* Two runs of the pipeline load the same table at the same time. Each     *)
(* runs insert_to_postgres on its own connection; the database orders      *)
(* their statements. A row whose id another open transaction has written   *)
(* and not yet committed makes the statement wait for that transaction;    *)
(* two transactions waiting for each other are a deadlock, which the       *)
(* database ends by failing the statement of one of them.                  *)
(***************************************************************************)
MaxWriterRows == 2   \* longest list of one concurrent writer

Writers == {1, 2}

Other(w) == CHOOSE o \in Writers : o # w

\* The lists the two writers load: rows of Works 1 and 2, and a row of
\* Work 2 that the database rejects
WriterLists ==
    LET pool == { ExtractRow([id |-> <<Prefix, Tok(1)>>, ok |-> TRUE]),
                  ExtractRow([id |-> <<Prefix, Tok(2)>>, ok |-> TRUE]),
                  ExtractRow([id |-> <<Prefix, Tok(2)>>, ok |-> FALSE]) }
    IN  SeqsUpTo(pool, MaxWriterRows)

\* The row writer w is at
RowOf(w) == wdata[w][wk[w]]

\* A database without unique-index locks: no statement waits
WaitsNever(w, row) == FALSE

\* The statement of w that writes row has to wait: the other writer has
\* written the id and not yet committed or rolled back
Waits(w, row) == row.ok /\ row.id \in Ids(wtxn[Other(w)])

\* What w's position is after row k of n in the fallback loop
AfterRow(k, n) == IF k = n THEN "done" ELSE "rows"

\* COPY reads the next row of the buffer
CopyRow ==
    /\ WritersFrame
    /\ \E w \in Writers :
          /\ wpc[w] = "copy"
          /\ ~Waits(w, RowOf(w))
          /\ IF CopyAccepts(Visible(table, wtxn[w]), RowOf(w))
             THEN /\ wtxn' = [wtxn EXCEPT ![w] = @ (+) OneRow(RowOf(w))]
                  /\ wk' = [wk EXCEPT ![w] = @ + 1]
                  /\ wpc' = [wpc EXCEPT ![w] = IF wk[w] = Len(wdata[w]) THEN "commit" ELSE "copy"]
             ELSE /\ wpc' = [wpc EXCEPT ![w] = OnBulkError]
                  /\ UNCHANGED <<wtxn, wk>>
    /\ UNCHANGED <<table, wdata, wfailed>>

\* Both COPY statements wait for each other: the database fails one of them
DeadlockDetected ==
    /\ WritersFrame
    /\ \E w \in Writers :
          /\ wpc[w] = "copy" /\ wpc[Other(w)] = "copy"
          /\ Waits(w, RowOf(w)) /\ Waits(Other(w), RowOf(Other(w)))
          /\ wpc' = [wpc EXCEPT ![w] = OnBulkError]
    /\ UNCHANGED <<table, wdata, wtxn, wk, wfailed>>

\* conn.commit() after COPY
CopyCommit ==
    /\ WritersFrame
    /\ \E w \in Writers :
          /\ wpc[w] = "commit"
          /\ table' = table (+) wtxn[w]
          /\ wtxn' = [wtxn EXCEPT ![w] = EmptyBag]
          /\ wpc' = [wpc EXCEPT ![w] = "done"]
    /\ UNCHANGED <<wdata, wk, wfailed>>

\* except: conn.rollback(), and the fallback loop starts at the first row
CopyRollback ==
    /\ WritersFrame
    /\ \E w \in Writers :
          /\ wpc[w] = "rollback"
          /\ wtxn' = [wtxn EXCEPT ![w] = RolledBack(@)]
          /\ wk' = [wk EXCEPT ![w] = 1]
          /\ wpc' = [wpc EXCEPT ![w] = "rows"]
          /\ wfailed' = [wfailed EXCEPT ![w] = TRUE]
    /\ UNCHANGED <<table, wdata>>

\* cur.execute(INSERT ... ON CONFLICT (id) DO NOTHING) of the fallback
\* loop: a rejected row is rolled back and the loop goes on; a row whose id
\* is committed is skipped; any other row is written and awaits the commit
RowInsert ==
    /\ WritersFrame
    /\ \E w \in Writers :
          /\ wpc[w] = "rows"
          /\ ~Waits(w, RowOf(w))
          /\ IF ~RowOf(w).ok
             THEN /\ wtxn' = [wtxn EXCEPT ![w] = RolledBack(@)]
                  /\ wk' = [wk EXCEPT ![w] = @ + 1]
                  /\ wpc' = [wpc EXCEPT ![w] = OnRowError(wk[w], Len(wdata[w]))]
             ELSE IF InsertOrSkip(table, RowOf(w)) = table
             THEN /\ wk' = [wk EXCEPT ![w] = @ + 1]
                  /\ wpc' = [wpc EXCEPT ![w] = AfterRow(wk[w], Len(wdata[w]))]
                  /\ UNCHANGED wtxn
             ELSE /\ wtxn' = [wtxn EXCEPT ![w] = InsertOrSkip(table, RowOf(w)) (-) table]
                  /\ wpc' = [wpc EXCEPT ![w] = "rowcommit"]
                  /\ UNCHANGED wk
    /\ UNCHANGED <<table, wdata, wfailed>>

\* conn.commit() of the fallback loop
RowCommit ==
    /\ WritersFrame
    /\ \E w \in Writers :
          /\ wpc[w] = "rowcommit"
          /\ table' = table (+) wtxn[w]
          /\ wtxn' = [wtxn EXCEPT ![w] = EmptyBag]
          /\ wk' = [wk EXCEPT ![w] = @ + 1]
          /\ wpc' = [wpc EXCEPT ![w] = AfterRow(wk[w], Len(wdata[w]))]
    /\ UNCHANGED <<wdata, wfailed>>

(***************************************************************************)
(* process_works_sample: the first max_files shards of the manifest are    *)
(* handed to a pool of max_workers threads; the calling thread adds each   *)
(* shard's list to all_aphrc_works as as_completed delivers its future.    *)
(***************************************************************************)
max_files == 10      \* def process_works_sample(manifest, aphrc_id, max_files=10)
max_workers == 4     \* ThreadPoolExecutor(max_workers=4)

MaxEntries == 11     \* most entries of a manifest

\* file_urls[:max_files] with the mistake of taking every url
TakeAll(urls, n) == urls

\* file_urls[:max_files]
Take(urls, n) == SubSeq(urls, 1, Min(n, Len(urls)))

\* [entry["url"] for entry in manifest.get("entries", [])]
file_urls(m) == [i \in 1..m.entries |-> i]

\* What process_works_file returns for a shard: the matching records of a
\* shard that has some (two of them in shard 1), the empty list of a shard
\* that has none, and the same empty list when the download or the
\* processing failed
ShardReturn(url, hit) ==
    IF ~hit THEN OnFileError
    ELSE IF url = 1 THEN << <<url, 1>>, <<url, 2>> >> ELSE << <<url, 1>> >>

Running == {i \in 1..Len(futures) : futures[i] = "running"}

\* as_completed delivers future i with no regard to whether it has finished
CollectableAny(i) == i \notin merged

\* as_completed delivers a future that has finished and was not delivered
Collectable(i) == futures[i] = "done" /\ i \notin merged

\* if not manifest: return; else the urls are cut to the sample
StartSample ==
    /\ SampleFrame
    /\ spc = "start"
    /\ IF ~sample_manifest.present
       THEN spc' = "done" /\ UNCHANGED sample_urls
       ELSE /\ sample_urls' = Take(file_urls(sample_manifest), max_files)
            /\ spc' = IF sample_manifest.entries = 0 THEN "gather" ELSE "submit"
    /\ UNCHANGED <<sample_manifest, shard_works, futures, merged, all_aphrc_works>>

\* executor.submit(process_works_file, url, aphrc_id) for the next url
Submit ==
    /\ SampleFrame
    /\ spc = "submit"
    /\ futures' = Append(futures, "queued")
    /\ spc' = IF Len(futures') = Len(sample_urls) THEN "gather" ELSE "submit"
    /\ UNCHANGED <<sample_manifest, shard_works, sample_urls, merged, all_aphrc_works>>

\* A thread of the pool takes the oldest queued call
StartWorker ==
    /\ SampleFrame
    /\ Cardinality(Running) < max_workers
    /\ \E i \in 1..Len(futures) :
          /\ futures[i] = "queued"
          /\ \A j \in 1..(i - 1) : futures[j] # "queued"
          /\ futures' = [futures EXCEPT ![i] = "running"]
    /\ UNCHANGED <<spc, sample_manifest, shard_works, sample_urls, merged, all_aphrc_works>>

\* process_works_file returns in its thread
FinishWorker ==
    /\ SampleFrame
    /\ \E i \in Running : futures' = [futures EXCEPT ![i] = "done"]
    /\ UNCHANGED <<spc, sample_manifest, shard_works, sample_urls, merged, all_aphrc_works>>

\* One round of the as_completed loop: all_aphrc_works.extend(future.result())
Collect ==
    /\ SampleFrame
    /\ spc = "gather"
    /\ \E i \in 1..Len(futures) :
          /\ Collectable(i)
          /\ all_aphrc_works' = all_aphrc_works \o shard_works[sample_urls[i]]
          /\ merged' = merged \cup {i}
    /\ UNCHANGED <<spc, sample_manifest, shard_works, sample_urls, futures>>

\* as_completed is exhausted, the with block ends, return all_aphrc_works
ReturnSample ==
    /\ SampleFrame
    /\ spc = "gather"
    /\ merged = 1..Len(futures)
    /\ spc' = "done"
    /\ UNCHANGED <<sample_manifest, shard_works, sample_urls, futures, merged, all_aphrc_works>>

(***************************************************************************)
(* fetch_aphrc.py fetch_all_works: the loop over the three search methods  *)
(* stands twice in the function, the second time without the upper limit   *)
(* on the count; both loops append to the same all_works. The server is    *)
(* consistent: a method that matches c works delivers work k on page       *)
(* (k - 1) \div per_page + 1 and reports page, per_page and count          *)
(* truthfully. Any request may fail with a status other than 200 or with   *)
(* an exception.                                                           *)
(***************************************************************************)
ReasonableCount == 10000   \* total_count < 10000
MethodCount == 3           \* len(search_methods)

Statuses == {"200", "500", "exception"}

\* len(results) of page p of a method that matches c works
PageSize(c, p) ==
    IF c <= (p - 1) * PerPage THEN 0
    ELSE IF c >= p * PerPage THEN PerPage ELSE c - (p - 1) * PerPage

\* The test on total_count in the first loop and in the second
CountAccepted(loop, c) ==
    IF loop = 1 THEN c > 0 /\ c < ReasonableCount ELSE c > 0

\* continue, or the end of the for body: the next method, the second loop
\* after the last method of the first, the return after the last of the second
NextMethod ==
    IF method_index < MethodCount
    THEN /\ method_index' = method_index + 1
         /\ qpc' = "probe"
         /\ UNCHANGED method_loop
    ELSE /\ method_index' = 1
         /\ method_loop' = IF method_loop = 1 THEN 2 ELSE method_loop
         /\ qpc' = IF method_loop = 1 THEN "probe" ELSE "done"

\* break out of the for loop: the second loop after the first, the return
\* after the second
BreakLoop ==
    /\ method_index' = 1
    /\ method_loop' = IF method_loop = 1 THEN 2 ELSE method_loop
    /\ qpc' = IF method_loop = 1 THEN "probe" ELSE "done"

\* requests.get(f"{base_url}&page=1&per-page=5") and the test of the count
ProbeMethod ==
    /\ FetchFrame
    /\ qpc = "probe"
    /\ \E status \in Statuses :
          IF status = "200" /\ CountAccepted(method_loop, counts[method_index])
          THEN /\ fetch_count' = counts[method_index]
               /\ fetch_page' = 1
               /\ qpc' = "page"
               /\ UNCHANGED <<method_loop, method_index>>
          ELSE /\ NextMethod
               /\ UNCHANGED <<fetch_count, fetch_page>>
    /\ UNCHANGED <<fetched, counts>>

\* One round of "while has_more": the request of the page, all_works.extend
\* and the test for more pages
FetchPage ==
    /\ FetchFrame
    /\ qpc = "page"
    /\ \E status \in Statuses :
          CASE status = "200" ->
                  LET n == PageSize(fetch_count, fetch_page)
                  IN  /\ fetched' = Append(fetched,
                             [method |-> method_index, page |-> fetch_page, n |-> n])
                      /\ IF n < PerPage \/ fetch_page * PerPage >= fetch_count
                         THEN BreakLoop /\ UNCHANGED fetch_page
                         ELSE /\ fetch_page' = fetch_page + 1
                              /\ UNCHANGED <<qpc, method_loop, method_index>>
            [] status = "500" ->
                  /\ BreakLoop
                  /\ UNCHANGED <<fetched, fetch_page>>
            [] OTHER ->
                  /\ NextMethod
                  /\ UNCHANGED <<fetched, fetch_page>>
    /\ UNCHANGED <<fetch_count, counts>>

(***************************************************************************)
(* Initial states and specifications, one per component.                   *)
(***************************************************************************)
LoaderOff ==
    /\ data = <<>> /\ ltxn = EmptyBag /\ lpc = "idle" /\ idx = 0
    /\ before = EmptyBag /\ rerun = FALSE /\ bulkFailed = FALSE

ExportOff ==
    /\ remoteExists = FALSE /\ remote = EmptyBag /\ remote0 = EmptyBag
    /\ table0 = EmptyBag /\ rows = <<>> /\ rview = EmptyBag /\ epc = "off" /\ bi = 0 /\ bj = 0

MainOff ==
    /\ mpc = "off" /\ api_works = <<>> /\ works = <<>> /\ collected = <<>>
    /\ calls = <<>>

ResolverOff ==
    /\ rpc = "off" /\ cand = 1 /\ probes = <<>> /\ result = <<>>

ApiOff ==
    /\ apc = "off" /\ page = 1 /\ all_works = <<>> /\ requests = <<>>

ShardOff ==
    /\ fpc = "off" /\ file_status = "200" /\ lines = <<>> /\ line_num = 0
    /\ aphrc_works = <<>> /\ returned = <<>>

AbstractOff ==
    /\ bpc = "off" /\ abstract_inverted_index = <<>> /\ words = <<>>
    /\ abstract_text = <<>>

NormOff ==
    /\ npc = "off" /\ nscript = "extract" /\ raw_works = <<>> /\ norm_rows = <<>>
    /\ nidx = 1

WritersOff ==
    /\ wdata = <<>> /\ wtxn = <<>> /\ wpc = <<>> /\ wk = <<>> /\ wfailed = <<>>

SampleOff ==
    /\ spc = "off" /\ sample_manifest = <<>> /\ shard_works = <<>> /\ sample_urls = <<>>
    /\ futures = <<>> /\ merged = {} /\ all_aphrc_works = <<>>

FetchOff ==
    /\ qpc = "off" /\ method_loop = 1 /\ method_index = 1 /\ fetch_page = 1
    /\ fetch_count = 0 /\ fetched = <<>> /\ counts = <<>>

ExtraOff == ShardOff /\ AbstractOff /\ NormOff /\ WritersOff /\ SampleOff /\ FetchOff

\* ---- Loader: ingest runs of both scripts against an empty table ----
InitLoader ==
    /\ table = EmptyBag
    /\ LoaderOff /\ ExportOff /\ MainOff /\ ResolverOff /\ ApiOff /\ ExtraOff

NextLoader ==
    \/ Ingest
    \/ Reload
    \/ Return
    \/ BulkCopy
    \/ BulkCommit
    \/ BulkRollback
    \/ InsertRow

SpecLoader == InitLoader /\ [][NextLoader]_vars

\* ---- Mirror/Export: a local table, and a remote database with or
\*      without the table ----
InitExport ==
    /\ \E n \in SourceSizes : table = LocalTable(n)
    /\ table0 = table
    /\ remoteExists \in BOOLEAN
    /\ remote \in (IF remoteExists THEN RemoteSeeds ELSE {EmptyBag})
    /\ remote0 = remote
    /\ rview = remote
    /\ rows = <<>> /\ epc = "start" /\ bi = 0 /\ bj = 0
    /\ LoaderOff /\ MainOff /\ ResolverOff /\ ApiOff /\ ExtraOff

NextExport ==
    \/ ReadLocal
    \/ CreateTable
    \/ ExecuteRow
    \/ CommitBatch
    \/ ExportError
    \/ ExportAgain

SpecExport == InitExport /\ [][NextExport]_vars

\* ---- extract.py main ----
InitMain ==
    /\ table = EmptyBag
    /\ mpc = "start" /\ api_works = <<>> /\ works = <<>> /\ collected = <<>>
    /\ calls = <<>>
    /\ LoaderOff /\ ExportOff /\ ResolverOff /\ ApiOff /\ ExtraOff

NextMain ==
    \/ CallApi
    \/ UseApiWorks
    \/ UseSnapshot
    \/ CheckEnough
    \/ NormalizeAndLoad

SpecMain == InitMain /\ [][NextMain]_vars

\* ---- Institution Resolver ----
InitResolver ==
    /\ table = EmptyBag
    /\ rpc = "candidates" /\ cand = 1 /\ probes = <<>> /\ result = <<>>
    /\ LoaderOff /\ ExportOff /\ MainOff /\ ApiOff /\ ExtraOff

NextResolver ==
    \/ ProbeCandidate
    \/ ProbeSearch

SpecResolver == InitResolver /\ [][NextResolver]_vars

\* ---- fallback_to_api ----
InitApi ==
    /\ table = EmptyBag
    /\ apc = "loop" /\ page = 1 /\ all_works = <<>> /\ requests = <<>>
    /\ LoaderOff /\ ExportOff /\ MainOff /\ ResolverOff /\ ExtraOff

NextApi ==
    \/ RequestPage

SpecApi == InitApi /\ [][NextApi]_vars

\* ---- process_works_file ----
InitShard ==
    /\ table = EmptyBag
    /\ fpc = "get" /\ file_status \in FileStatuses
    /\ lines \in (IF file_status = "200" THEN SeqsUpTo(ShardLines, MaxLines) ELSE {<<>>})
    /\ line_num = 0 /\ aphrc_works = <<>> /\ returned = <<>>
    /\ LoaderOff /\ ExportOff /\ MainOff /\ ResolverOff /\ ApiOff
    /\ AbstractOff /\ NormOff /\ WritersOff /\ SampleOff /\ FetchOff

NextShard ==
    \/ DownloadShard
    \/ NextLine
    \/ ReturnShard

SpecShard == InitShard /\ [][NextShard]_vars

\* ---- reconstruct_abstract ----
InitAbstract ==
    /\ table = EmptyBag
    /\ bpc = "call" /\ abstract_inverted_index \in Indexes
    /\ words = <<>> /\ abstract_text = <<>>
    /\ LoaderOff /\ ExportOff /\ MainOff /\ ResolverOff /\ ApiOff
    /\ ShardOff /\ NormOff /\ WritersOff /\ SampleOff /\ FetchOff

NextAbstract ==
    \/ Reconstruct

SpecAbstract == InitAbstract /\ [][NextAbstract]_vars

\* ---- Record Normalizer and Loader, as main runs them ----
InitNormalizer ==
    /\ table = EmptyBag
    /\ npc = "extract" /\ nscript \in {"extract", "fetch"}
    /\ raw_works \in WorkLists
    /\ norm_rows = <<>> /\ nidx = 1
    /\ LoaderOff /\ ExportOff /\ MainOff /\ ResolverOff /\ ApiOff
    /\ ShardOff /\ AbstractOff /\ WritersOff /\ SampleOff /\ FetchOff

NextNormalizer ==
    \/ ExtractWork
    \/ HandToLoader
    \/ BulkCopy
    \/ BulkCommit
    \/ BulkRollback
    \/ InsertRow

SpecNormalizer == InitNormalizer /\ [][NextNormalizer]_vars

\* ---- two concurrent writers; "if not data: return" ends a writer at once ----
InitWriters ==
    /\ table = EmptyBag
    /\ wdata \in [Writers -> WriterLists]
    /\ wtxn = [w \in Writers |-> EmptyBag]
    /\ wpc = [w \in Writers |-> IF wdata[w] = <<>> THEN "done" ELSE "copy"]
    /\ wk = [w \in Writers |-> 1]
    /\ wfailed = [w \in Writers |-> FALSE]
    /\ LoaderOff /\ ExportOff /\ MainOff /\ ResolverOff /\ ApiOff
    /\ ShardOff /\ AbstractOff /\ NormOff /\ SampleOff /\ FetchOff

NextWriters ==
    \/ CopyRow
    \/ DeadlockDetected
    \/ CopyCommit
    \/ CopyRollback
    \/ RowInsert
    \/ RowCommit

SpecWriters == InitWriters /\ [][NextWriters]_vars

\* ---- process_works_sample ----
InitSample ==
    /\ table = EmptyBag
    /\ spc = "start"
    /\ LET \* The manifests: None, or one of some number of entries
           Manifests ==
               [present : {FALSE}, entries : {0}]
                   \cup [present : {TRUE}, entries : (0..3) \cup {max_files, MaxEntries}]
       IN  sample_manifest \in Manifests
    /\ LET \* The shards with matching records: any of a short manifest; of a
           \* long one the first, the last one processed and the last one listed
           HitSets(n) == IF n <= 3 THEN SUBSET (1..n) ELSE {{1, max_files, n}}
       IN  \E hits \in HitSets(sample_manifest.entries) :
              shard_works = [url \in 1..sample_manifest.entries |-> ShardReturn(url, url \in hits)]
    /\ sample_urls = <<>>
    /\ futures = <<>>
    /\ merged = {}
    /\ all_aphrc_works = <<>>
    /\ LoaderOff /\ ExportOff /\ MainOff /\ ResolverOff /\ ApiOff
    /\ ShardOff /\ AbstractOff /\ NormOff /\ WritersOff /\ FetchOff

NextSample ==
    \/ StartSample
    \/ Submit
    \/ StartWorker
    \/ FinishWorker
    \/ Collect
    \/ ReturnSample

SpecSample == InitSample /\ [][NextSample]_vars

\* ---- fetch_all_works of fetch_aphrc.py ----
InitFetch ==
    /\ table = EmptyBag
    /\ qpc = "probe" /\ method_loop = 1 /\ method_index = 1
    /\ fetch_page = 1 /\ fetch_count = 0 /\ fetched = <<>>
    /\ counts \in [1..MethodCount -> {0, 3, PerPage + 1, ReasonableCount + 1}]
    /\ LoaderOff /\ ExportOff /\ MainOff /\ ResolverOff /\ ApiOff
    /\ ShardOff /\ AbstractOff /\ NormOff /\ WritersOff /\ SampleOff

NextFetch ==
    \/ ProbeMethod
    \/ FetchPage

SpecFetch == InitFetch /\ [][NextFetch]_vars

(***************************************************************************)
(* Properties of the Loader (SpecLoader).                                  *)
(***************************************************************************)
Count(T) == BagCardinality(T)

\* C1 -- Loader idempotence: when insert_to_postgres is called again with
\* the list of the previous call, the call ends without an exception
\* leaving it, and the table then has the same number of rows and the same
\* ids as after the first call.
C1_LoaderIdempotent ==
    rerun =>
        /\ lpc # "raised"
        /\ lpc = "done" => /\ Count(table) = Count(before)
                           /\ Ids(table) = Ids(before)

\* A second call has ended, for a list that holds a rejected row and a row
\* the first call loaded.
C1_Witness ==
    /\ rerun /\ lpc = "done" /\ bulkFailed
    /\ \E i, j \in 1..Len(data) :
          /\ ~data[i].ok
          /\ data[j].ok /\ data[j].id \in Ids(table)

\* C2 -- no source Work identifier is represented by more than one row of
\* the table, whichever script ingested it and however often.
C2_OneRowPerSourceWork ==
    /\ \A r \in BagToSet(table) : table[r] = 1
    /\ \A r1, r2 \in BagToSet(table) : r1.src = r2.src => r1 = r2

\* C3 -- Loader fallback: after a failed COPY the rollback leaves the table
\* as it was with nothing pending; the row-by-row loop then runs to its end
\* whatever rows fail in it, and when the Loader returns every row that is
\* insertable or whose id was already there is in the table.
C3_LoaderFallback ==
    bulkFailed =>
        /\ (lpc = "rows" /\ idx = 1) => (table = before /\ ltxn = EmptyBag)
        /\ lpc \in {"rows", "done"}
        /\ lpc = "done" =>
              /\ idx = Len(data) + 1
              /\ \A i \in 1..Len(data) :
                    (data[i].ok \/ data[i].id \in Ids(before))
                        => data[i].id \in Ids(table)
              /\ \A i \in 1..Len(data) :
                    (data[i].id \in Ids(table) /\ data[i].id \notin Ids(before))
                        => \E j \in 1..Len(data) : data[j].ok /\ data[j].id = data[i].id

\* The fallback has ended: its first row was rejected, and a later row, new
\* to the table, was inserted all the same.
C3_Witness ==
    /\ bulkFailed /\ lpc = "done" /\ Len(data) >= 2
    /\ ~data[1].ok
    /\ data[2].ok /\ data[2].id \notin Ids(before) /\ data[2].id \in Ids(table)

(***************************************************************************)
(* Properties of Mirror/Export (SpecExport).                               *)
(***************************************************************************)
\* C4 -- Export row count: when a run ends without error and the target
\* was empty at its start, the target has as many rows as the source; and
\* when the target held the source's rows at its start, as the first run
\* leaves it, a further run leaves it at that number too.
C4_ExportRowCount ==
    (epc = "done" /\ (remote0 = EmptyBag \/ remote0 = table))
        => Count(remote) = Count(table)

\* A run has ended without error on a target that already held all the
\* rows of a source of more than one batch.
C4_Witness ==
    /\ epc = "done"
    /\ remote0 = table
    /\ Count(table) > BatchSize
    /\ Count(remote) = Count(table)

\* The source rows of the first k fetched rows that the target did not
\* hold when the run began
NewRows(k) ==
    SetToBag({rows[i] : i \in {n \in 1..k : rows[n].id \notin Ids(remote0)}})

\* The number of batches of the fetched rows
NumBatches == (Len(rows) + BatchSize - 1) \div BatchSize

\* C5 -- batch atomicity: in every state, an error in the middle of a batch
\* included, what this run has committed to the target is exactly the rows,
\* new to the target, of the first j whole batches, for some j.
C5_BatchAtomic ==
    \E j \in 0..NumBatches :
        remote = remote0 (+) NewRows(Min(j * BatchSize, Len(rows)))

\* The run failed inside its second batch, after some rows of that batch
\* had been executed and the first batch had been committed.
C5_Witness ==
    /\ epc = "failed"
    /\ bi = BatchSize
    /\ bj > 0 /\ bj < Len(Batch(rows, bi))
    /\ remote # remote0

\* C6 -- schema creation: whenever a run has read the source and ended
\* without error, the table exists in the target database.
C6_TargetTableExists ==
    epc = "done" => remoteExists

\* C7 -- Export only copies: the source table is as it was, and every row
\* the target held before the run is still there with the same values,
\* also when the source holds a row of the same id with other values.
C7_ExportOnlyCopies ==
    /\ table = table0
    /\ remote0 \sqsubseteq remote
    /\ \A r \in BagToSet(remote) :
          r.id \in Ids(remote0) => r \in BagToSet(remote0)

\* A run has ended without error although the target held, for an id of
\* the source, a row with other values.
C7_Witness ==
    /\ epc = "done"
    /\ Len(rows) > BatchSize
    /\ \E r \in BagToSet(remote0), q \in BagToSet(table) : r.id = q.id /\ r # q

(***************************************************************************)
(* Properties of the selection policy (SpecMain).                          *)
(***************************************************************************)
Invoked(name) == \E i \in 1..Len(calls) : calls[i] = name

\* C8 -- selection policy: the API strategy is the first thing invoked and
\* is invoked once; once its result is known to be below the threshold of
\* ten the manifest download and the shard sample are invoked, in that
\* order; and when the API returned fewer than ten works and the snapshot
\* fewer than five, the works handed to normalization are exactly the ten
\* records of generate_sample_data.
C8_SelectionPolicy ==
    /\ \A i \in 1..Len(calls) : (calls[i] = "api") <=> (i = 1)
    /\ (mpc \notin {"start", "select"} /\ Len(api_works) < ApiThreshold)
          => \E i \in 1..Len(calls) - 1 :
                calls[i] = "manifest" /\ calls[i + 1] = "sample"
    /\ (Invoked("manifest") \/ Invoked("sample")) => Len(api_works) < ApiThreshold
    /\ (mpc \in {"normalize", "done"}
            /\ Len(api_works) < ApiThreshold /\ Len(collected) < SnapshotThreshold)
          => /\ works = generate_sample_data
             /\ Len(works) = SampleCount
             /\ Invoked("synthetic")
    /\ Invoked("extract_work_data") =>
          works = (IF Len(collected) < SnapshotThreshold
                   THEN generate_sample_data ELSE collected)

\* The API returned some works but fewer than ten, the snapshot some but
\* fewer than five, and the synthetic records are about to be normalized.
C8_Witness ==
    /\ mpc = "normalize"
    /\ Len(api_works) > 0 /\ Len(api_works) < ApiThreshold
    /\ Len(collected) > 0 /\ Len(collected) < SnapshotThreshold
    /\ works = generate_sample_data

(***************************************************************************)
(* Properties of the Institution Resolver (SpecResolver).                  *)
(***************************************************************************)
\* A lookup that succeeded with a display name containing the full name
LookupMatches(resp) ==
    resp.status = "200" /\ resp.name # Null /\ Contains(resp.name)

\* A result of the name search whose display name contains the full name
ResultMatches(r) == r.name # Null /\ Contains(r.name)

\* The first index of a sequence that satisfies a test; 0 when none does
FirstIndex(n, Test(_)) ==
    IF \E i \in 1..n : Test(i)
    THEN CHOOSE i \in 1..n : Test(i) /\ \A j \in 1..(i - 1) : ~Test(j)
    ELSE 0

\* The name search ended in an error: a transport or parse error of the
\* request, or a result that cannot be read (a null display name, or a null
\* id in the matching result) met no later than the first matching result
SearchErrored(resp) ==
    \/ resp.status = "exception"
    \/ /\ resp.status = "200"
       /\ LET rs == resp.results
              m  == FirstIndex(Len(rs), LAMBDA i : ResultMatches(rs[i]))
              last == IF m = 0 THEN Len(rs) ELSE m
          IN  \/ \E i \in 1..last : rs[i].name = Null
              \/ (m # 0 /\ rs[m].id = Null)

\* What the resolver is to return for a log of probes
ExpectedResult(log) ==
    LET c == FirstIndex(Len(log),
                 LAMBDA i : log[i].probe # SearchProbe /\ LookupMatches(log[i].resp))
    IN  IF c # 0 THEN <<log[c].probe, log[c].resp.name>>
        ELSE LET resp == log[Len(log)].resp
                 rs   == resp.results
                 m    == FirstIndex(Len(rs), LAMBDA i : ResultMatches(rs[i]))
             IN  IF resp.status = "200" /\ ~SearchErrored(resp) /\ m # 0
                 THEN <<StripPrefix(rs[m].id), rs[m].name>>
                 ELSE FallbackPair

\* C9 -- the resolver never raises; it probes the known candidates in list
\* order, stops at the first whose lookup matches, issues the name search
\* only after every candidate failed to match, and returns the first
\* matching candidate, else the first matching search result, else the
\* fallback pair; an error on a probe only moves it on.
C9_ResolverTotal ==
    /\ rpc # "raised"
    /\ \A i \in 1..Len(probes) :
          /\ i <= Len(known_ids) => probes[i].probe = known_ids[i]
          /\ i > Len(known_ids) => (probes[i].probe = SearchProbe /\ i = Len(known_ids) + 1)
          /\ i < Len(probes) =>
                (probes[i].probe # SearchProbe /\ ~LookupMatches(probes[i].resp))
    /\ rpc = "done" =>
          /\ result = ExpectedResult(probes)
          /\ Len(result) = 2
          /\ \/ probes[Len(probes)].probe = SearchProbe
             \/ LookupMatches(probes[Len(probes)].resp)

\* Both lookups failed, the first by an exception and the second by its
\* status, and the name search found the institution.
C9_Witness ==
    /\ rpc = "done" /\ Len(probes) = 3
    /\ probes[1].resp.status = "exception"
    /\ probes[2].resp.status = "404"
    /\ probes[3].resp.status = "200"
    /\ result # FallbackPair
    /\ result[1] = <<"I7">>

(***************************************************************************)
(* Properties of the API pagination (SpecApi).                             *)
(***************************************************************************)
\* The documented stop condition, met by the response to a page request:
\* fewer results than the page size, or page requested * page size >= count
StopConditionMet(rq) ==
    /\ rq.resp.status = "200"
    /\ (rq.resp.n < PerPage \/ rq.page * PerPage >= rq.resp.count)

\* C10 -- pagination stops at the first page that meets the stop condition:
\* pages are requested in the order 1, 2, 3, ..., each 200 response is
\* accumulated once, and no page is requested after a response that met the
\* stop condition or was not a 200.
C10_StopsAtFirstStopPage ==
    /\ \A i \in 1..Len(requests) : requests[i].page = i
    /\ Len(all_works) = Cardinality({i \in 1..Len(requests) : requests[i].resp.status = "200"})
    /\ \A i \in 1..Len(all_works) :
          all_works[i] = [page |-> i, n |-> requests[i].resp.n]
    /\ \A i \in 1..Len(requests) - 1 :
          requests[i].resp.status = "200" /\ ~StopConditionMet(requests[i])

(***************************************************************************)
(* Properties of process_works_file (SpecShard).                           *)
(***************************************************************************)
\* The line is text that parses to a JSON object
Parses(line) == line.text = "ok" /\ line.value[1] = "obj"

\* The record's authorship institution list contains the resolved id
ListsInstitution(work) ==
    /\ Has(work[2], "authorships")
    /\ At(work[2], "authorships")[1] = "arr"
    /\ \E i \in 1..Len(At(work[2], "authorships")[2]) :
          LET a == At(work[2], "authorships")[2][i]
          IN  /\ a[1] = "obj"
              /\ Has(a[2], "institutions")
              /\ At(a[2], "institutions")[1] = "arr"
              /\ \E j \in 1..Len(At(a[2], "institutions")[2]) :
                    LET inst == At(a[2], "institutions")[2][j]
                    IN  /\ inst[1] = "obj"
                        /\ Has(inst[2], "id")
                        /\ At(inst[2], "id")[1] = "str"
                        /\ At(inst[2], "id")[2] \in {aphrc_id, <<Prefix>> \o aphrc_id}

\* The line is kept: it parses, its test does not fail, and it lists the id
Kept(line) ==
    /\ Parses(line)
    /\ TestRecord(line.value) # "raise"
    /\ ListsInstitution(line.value)

RECURSIVE KeptRecords(_)
KeptRecords(ls) ==
    IF ls = <<>> THEN <<>>
    ELSE (IF Kept(Head(ls)) THEN <<Head(ls).value>> ELSE <<>>) \o KeptRecords(Tail(ls))

\* C11 -- Snapshot shard filtering: a line that fails to parse or to be
\* tested is skipped and never aborts the shard; a downloaded shard returns
\* exactly the records of its well-formed lines that list the resolved
\* institution id, in line order.
C11_ShardFiltering ==
    (fpc = "done" /\ file_status = "200") => returned = KeptRecords(lines)

(***************************************************************************)
(* Properties of reconstruct_abstract (SpecAbstract).                      *)
(***************************************************************************)
\* The (word, position) pairs the index records
Recorded(ix) ==
    UNION {{<< <<ix[n][1]>>, ix[n][2][2][k][2]>> : k \in 1..Len(ix[n][2][2])} :
              n \in 1..Len(ix)}

WordsAt(ix, p) == {wp[1] : wp \in {x \in Recorded(ix) : x[2] = p}}

\* One more than the largest recorded position; no slot when nothing is recorded
SlotCount(ix) ==
    IF Recorded(ix) = {} THEN 0
    ELSE 1 + CHOOSE p \in 0..MaxPos + 1 :
                 /\ WordsAt(ix, p) # {}
                 /\ \A q \in 0..MaxPos + 1 : WordsAt(ix, q) # {} => q <= p

\* The slots separated by single spaces, built from the left
RECURSIVE SpaceJoined(_, _)
SpaceJoined(slots, n) ==
    IF n = 0 THEN <<>>
    ELSE IF n = 1 THEN slots[1]
    ELSE SpaceJoined(slots, n - 1) \o <<" ">> \o slots[n]

\* The call returned, and what it built is what the index describes
ReconstructsIndex ==
    /\ bpc = "done"
    /\ Len(words) = SlotCount(abstract_inverted_index)
    /\ \A p \in 1..Len(words) :
          WordsAt(abstract_inverted_index, p - 1) = {} => words[p] = <<>>
    /\ \A wp \in Recorded(abstract_inverted_index) : words[wp[2] + 1] = wp[1]
    /\ abstract_text = SpaceJoined(words, Len(words))
    /\ (abstract_inverted_index = <<>> => abstract_text = <<>>)

\* No position is recorded for two different words
NoSharedPosition(ix) ==
    \A p \in 0..MaxPos + 1 : Cardinality(WordsAt(ix, p)) <= 1

\* C15 as stated -- Abstract Reconstructor: for every mapping from words to
\* sets of non-negative positions the result is the single-space join of
\* max position + 1 slots, every indexed word is at each of its recorded
\* positions, every unindexed slot is empty, and the empty mapping gives "".
C15_EveryMapping ==
    bpc \in {"done", "raised"} => ReconstructsIndex

\* C15 as amended -- the same, for every mapping in which no position is
\* recorded for two different words.
C15_Reconstructs ==
    (bpc \in {"done", "raised"} /\ NoSharedPosition(abstract_inverted_index))
        => ReconstructsIndex

\* {"a":[0],"b":[2]} was reconstructed to "a  b"
C15_Witness ==
    /\ bpc = "done"
    /\ abstract_inverted_index =
           << <<"a", JArr(<<JInt(0)>>)>>, <<"b", JArr(<<JInt(2)>>)>> >>
    /\ abstract_text = <<"a", " ", " ", "b">>

(***************************************************************************)
(* Properties of the Record Normalizer (SpecNormalizer).                   *)
(***************************************************************************)
\* Work j has been through the loop body
Normalized(j) == j < nidx \/ (npc = "aborted" /\ j = nidx)

\* The loop body raised on work j
RaisedOn(j) == npc = "aborted" /\ j = nidx

\* C12 -- Record Normalizer never raises: for every raw Work, whatever
\* fields are missing or malformed, the loop body raises no exception and
\* returns a row in which every missing field has its default.
C12_NeverRaises ==
    \A j \in 1..Len(raw_works) :
        Normalized(j) =>
            /\ ~RaisedOn(j)
            /\ \A k \in {"title", "doi", "type", "publication_year", "publication_date",
                         "cited_by_count"} :
                  ~Has(raw_works[j][2], k) => norm_rows[j][k] = Default(k)

\* The row of a Work without any field
DefaultRow ==
    [id               |-> JStr(<<>>),
     title            |-> JStr(<<>>),
     authors          |-> JStr(<<>>),
     publication_year |-> JNull,
     publication_date |-> JNull,
     doi              |-> JStr(<<>>),
     open_access      |-> JBool(FALSE),
     journal_name     |-> JStr(<<>>),
     volume           |-> JStr(<<>>),
     issue            |-> JStr(<<>>),
     cited_by_count   |-> JInt(0),
     type             |-> JStr(<<>>),
     abstract         |-> JStr(<<>>)]

\* C13 -- Record Normalizer defaults: a raw Work that has none of the
\* optional fields is normalized without raising to the row with
\* cited_by_count 0, open_access false, publication_year and
\* publication_date null and every string field empty.
C13_Defaults ==
    \A j \in 1..Len(raw_works) :
        (Normalized(j) /\ raw_works[j][2] = <<>>) =>
            ~RaisedOn(j) /\ norm_rows[j] = DefaultRow

\* The Work without fields has been normalized
C13_Witness ==
    /\ raw_works = <<EmptyWork>>
    /\ nscript = "extract"
    /\ Len(norm_rows) = 1

\* The row the spec gives for the Work of its end-to-end scenario
ExampleRow ==
    [id               |-> JStr(<<"W1">>),
     title            |-> JStr(<<"T">>),
     authors          |-> JStr(<<"A">>),
     publication_year |-> JInt(2022),
     publication_date |-> JNull,
     doi              |-> JStr(<<>>),
     open_access      |-> JBool(TRUE),
     journal_name     |-> JStr(<<"J">>),
     volume           |-> JStr(<<"1">>),
     issue            |-> JStr(<<"2">>),
     cited_by_count   |-> JInt(5),
     type             |-> JStr(<<"journal-article">>),
     abstract         |-> JStr(<<"hi">>)]

\* The pieces that are URI prefixes of an identifier
UriPrefixes == {Prefix, "https://x.org/"}

\* C14 -- Record Normalizer field mapping: the Work of the end-to-end
\* scenario is normalized to the row the spec gives, and the id column of
\* every normalized Work is its identifier without the URI prefix.
C14_FieldMapping ==
    \A j \in 1..Len(norm_rows) :
        /\ raw_works[j] = ExampleWork => norm_rows[j] = ExampleRow
        /\ (Has(raw_works[j][2], "id") /\ At(raw_works[j][2], "id")[1] = "str") =>
              norm_rows[j].id =
                  JStr(SelectSeq(At(raw_works[j][2], "id")[2], LAMBDA t : t \notin UriPrefixes))

\* The run of main is over
RunOver == npc = "aborted" \/ (npc = "load" /\ lpc = "done")

CanNormalize(work) == NormalizeWork(nscript, work).ok

\* C18 -- Malformed-data isolation: when exactly one collected work cannot
\* be normalized, only that record is skipped: at the end of the run every
\* other collected work whose row the table takes is in the table.
C18_OnlyBadRecordSkipped ==
    (RunOver /\ Cardinality({j \in 1..Len(raw_works) : ~CanNormalize(raw_works[j])}) = 1) =>
        \A j \in 1..Len(raw_works) :
            LET r == NormalizeWork(nscript, raw_works[j])
            IN  (r.ok /\ Loadable(r.row)) => r.row.id[2] \in Ids(table)

(***************************************************************************)
(* Properties of two concurrent writers (SpecWriters).                     *)
(***************************************************************************)
BothDone == \A w \in Writers : wpc[w] = "done"

\* The two lists have an id in common
Overlapping ==
    \E i \in 1..Len(wdata[1]), j \in 1..Len(wdata[2]) : wdata[1][i].id = wdata[2][j].id

\* C16 -- Concurrent writers: under every interleaving of the steps of two
\* Loader runs on the same table neither run aborts or is left waiting
\* for ever, the table never holds two rows with the same id, and when both
\* have ended every id of either list that has an insertable row is in the
\* table.
C16_ConcurrentWriters ==
    /\ \A w \in Writers : wpc[w] # "raised"
    /\ \A r \in BagToSet(table) :
          Count([x \in {y \in BagToSet(table) : y.id = r.id} |-> table[x]]) = 1
    /\ BothDone \/ ENABLED NextWriters
    /\ BothDone =>
          \A w \in Writers : \A i \in 1..Len(wdata[w]) :
              wdata[w][i].ok => wdata[w][i].id \in Ids(table)

\* Both writers have ended, their lists overlapped and both COPYs failed
C16_Witness ==
    /\ BothDone
    /\ Overlapping
    /\ \A w \in Writers : wfailed[w]
    /\ table # EmptyBag

(***************************************************************************)
(* Properties of process_works_sample (SpecSample).                        *)
(***************************************************************************)
AllCompleted == \A i \in 1..Len(futures) : futures[i] = "done"

\* C17 -- Snapshot scatter/gather, as claimed: results are in the combined
\* list only when all submitted shard workers have completed; no merge
\* happens while a worker is still queued or running.
C17_MergeAfterAll == merged # {} => AllCompleted

\* C17 -- Snapshot scatter/gather, as the code does it: a shard's result is
\* merged only after that shard's worker has completed, results are merged
\* only after every shard was submitted, and process_works_sample returns
\* only after all workers have completed and every result was merged.
C17_MergeAfterOwn ==
    /\ \A i \in merged : futures[i] = "done"
    /\ merged # {} => Len(futures) = Len(sample_urls)
    /\ (spc = "done" /\ sample_manifest.present) =>
          AllCompleted /\ merged = 1..Len(sample_urls)

\* A result is merged while another worker is running and one is queued
C17_Witness ==
    /\ merged # {}
    /\ Running # {}
    /\ \E i \in 1..Len(futures) : futures[i] = "queued"

\* The bag of the elements of a list
RECURSIVE BagOf(_)
BagOf(list) ==
    IF list = <<>> THEN EmptyBag ELSE SetToBag({Head(list)}) (+) BagOf(Tail(list))

\* The bag union of the lists of the first n shards
RECURSIVE ShardUnion(_)
ShardUnion(n) ==
    IF n = 0 THEN EmptyBag ELSE ShardUnion(n - 1) (+) BagOf(shard_works[n])

RECURSIVE WorksIn(_)
WorksIn(chunks) ==
    IF chunks = <<>> THEN 0 ELSE Head(chunks).n + WorksIn(Tail(chunks))

\* C19 -- Single-strategy result: the list fetch_all_works returns holds
\* the pages of one search method only, no page of it twice, and so no
\* more works than the count the method reported.
C19_SingleStrategy ==
    qpc = "done" =>
        /\ \A i, j \in 1..Len(fetched) :
              /\ fetched[i].method = fetched[j].method
              /\ i # j => fetched[i].page # fetched[j].page
        /\ fetched # <<>> => WorksIn(fetched) <= counts[fetched[1].method]

====
